---- MODULE Spec2Model ----
(***************************************************************************)
(* gh-emails (src/main.py): a Flask application with a health-check route  *)
(* and a GitHub push hook that starts notify.sh for every push.            *)
(*                                                                         *)
(* Strings are sequences of one-character strings, so that os.path.join    *)
(* and str.format are computed and not assumed.  A Python dict is a        *)
(* function whose DOMAIN is the set of keys present; a lookup of a key     *)
(* outside the DOMAIN is a KeyError.  Dicts are objects: envs is the heap  *)
(* of environment mappings, object 0 being os.environ.                     *)
(*                                                                         *)
(* The signature check and the construction of the HTTP response of the    *)
(* hook route are done by github_webhook.Webhook, which is not part of     *)
(* src/main.py; the model starts a push request where the wrapper calls    *)
(* on_push(data).                                                          *)
(***************************************************************************)
EXTENDS Integers, Sequences, FiniteSets, TLC

\* ------------------------------------------------------------------ bounds
MaxReq == 2

Reqs == 1..MaxReq

\* ----------------------------------------------------------------- strings
Unset == <<"<unset>">>

SEP == "/"

GIT == <<"g", "i", "t">>

NOTIFY == <<"notify.sh">>

HELLO == <<"Hello, world!">>

\* posixpath.join(a, b): an absolute b replaces a; an empty a or one ending
\* with the separator takes b as it is; otherwise the separator is inserted.
PathJoin(a, b) ==
  IF Len(b) > 0 /\ Head(b) = SEP THEN b
  ELSE IF Len(a) = 0 \/ a[Len(a)] = SEP THEN a \o b
  ELSE a \o <<SEP>> \o b

\* "Processed push to {}.".format(full_name)
Processed(name) == <<"Processed push to ">> \o name \o <<".">>

\* ------------------------------------------------------------- environment
\* dict.get(key): the value, or None (Unset) when the key is absent.
EnvGet(env, key) == IF key \in DOMAIN env THEN env[key] ELSE Unset

\* dict.get(key, default)
EnvGetOr(env, key, default) == IF key \in DOMAIN env THEN env[key] ELSE default

\* script_env['REPO_DIR'] = value
EnvDropOthers(env, key, value) == [k \in {key} |-> value]
EnvSet(env, key, value) ==
  [k \in DOMAIN env \cup {key} |-> IF k = key THEN value ELSE env[k]]

\* The environments the server may be started with.
StartEnvs ==
  { e \in UNION { [ks -> {<<"/", "w">>, <<"/", "s">>, <<"/", "o">>, <<"k">>, <<"/", "b">>}] :
                    ks \in { s \in SUBSET {"PATH", "PWD", "REPOS_DIR", "REPO_DIR", "GITHUB_SECRET"} :
                               "PATH" \in s } } :
      /\ e["PATH"] = <<"/", "b">>
      /\ "PWD" \in DOMAIN e => e["PWD"] = <<"/", "w">>
      /\ "REPOS_DIR" \in DOMAIN e => e["REPOS_DIR"] = <<"/", "s">>
      /\ "REPO_DIR" \in DOMAIN e => e["REPO_DIR"] = <<"/", "o">>
      /\ "GITHUB_SECRET" \in DOMAIN e => e["GITHUB_SECRET"] = <<"k">> }

\* ---------------------------------------------------------------- payloads
FullNames == { <<"a", "/", "b">>, <<"/", "e">> }

\* A complete push payload ("pusher" and "clone_url" are keys on_push never
\* reads).
Complete(f) ==
  [ref |-> <<"r">>, before |-> <<"0">>, after |-> <<"1">>, pusher |-> <<"p">>,
   repository |-> [clone_url |-> <<"u">>, full_name |-> f]]

\* dict d without key k
Without(d, k) == [x \in DOMAIN d \ {k} |-> d[x]]

\* The decoded JSON bodies: the complete payloads, and a complete payload
\* with one of the five keys on_push reads removed.
Payloads ==
  { Complete(f) : f \in FullNames } \cup
  { Without(Complete(<<"a", "/", "b">>), k) : k \in {"ref", "before", "after", "repository"} } \cup
  { [Complete(<<"a", "/", "b">>) EXCEPT !["repository"] = Without(@, "full_name")] }

\* ------------------------------------------------------------------- state
VARIABLES
  startEnv,    \* the environment the server process was started with
  envs,        \* heap of environment dicts; envs[0] is os.environ
  serving,     \* the Flask server is up and dispatching requests
  kind,        \* per request: "none", "GET" or "POST"
  data,        \* per request: the decoded payload handed to on_push
  pc,          \* per request: the line of on_push about to run
  script_env,  \* on_push local: reference into envs (-1 before line 27)
  full_name,   \* on_push local
  repos_dir,   \* on_push local
  cmd,         \* on_push local (<<>> before line 32)
  ret,         \* per request: the view's return value
  exc,         \* per request: the exception that left the view ("" if none)
  status,      \* per request: HTTP status of the response (0 before it)
  procs        \* the processes started by subprocess.Popen, in start order

vars ==
  <<startEnv, envs, serving, kind, data, pc, script_env, full_name, repos_dir,
    cmd, ret, exc, status, procs>>

NoData == [pusher |-> <<"p">>]

\* webhook = github_webhook.Webhook(app, secret=os.environ.get('GITHUB_SECRET'))
secret == EnvGet(startEnv, "GITHUB_SECRET")

Init ==
  /\ startEnv \in StartEnvs
  /\ envs = (0 :> startEnv)
  /\ serving = TRUE
  /\ kind = [r \in Reqs |-> "none"]
  /\ data = [r \in Reqs |-> NoData]
  /\ pc = [r \in Reqs |-> "idle"]
  /\ script_env = [r \in Reqs |-> -1]
  /\ full_name = [r \in Reqs |-> Unset]
  /\ repos_dir = [r \in Reqs |-> Unset]
  /\ cmd = [r \in Reqs |-> <<>>]
  /\ ret = [r \in Reqs |-> Unset]
  /\ exc = [r \in Reqs |-> ""]
  /\ status = [r \in Reqs |-> 0]
  /\ procs = <<>>

\* ------------------------------------------------------------ the framework
\* An exception that leaves a view is answered by Flask with 500 Internal
\* Server Error (no errorhandler is registered); the server keeps serving.
RaiseFatal(r, e) ==
  /\ pc' = [pc EXCEPT ![r] = "done"]
  /\ exc' = [exc EXCEPT ![r] = e]
  /\ status' = [status EXCEPT ![r] = 500]
  /\ serving' = FALSE
  /\ UNCHANGED ret
Raise(r, e) ==
  /\ pc' = [pc EXCEPT ![r] = "done"]
  /\ exc' = [exc EXCEPT ![r] = e]
  /\ status' = [status EXCEPT ![r] = 500]
  /\ UNCHANGED <<serving, ret>>

\* The status of the hook route's response when on_push returns is chosen by
\* the github_webhook wrapper, which builds that response.
HookOkStatus == {200, 204}

\* @app.route('/') def hello_world(): return 'Hello, world!'
HelloWorld(r) ==
  /\ serving /\ pc[r] = "idle"
  /\ kind' = [kind EXCEPT ![r] = "GET"]
  /\ pc' = [pc EXCEPT ![r] = "done"]
  /\ ret' = [ret EXCEPT ![r] = HELLO]
  /\ status' = [status EXCEPT ![r] = 200]
  /\ UNCHANGED <<startEnv, envs, serving, data, script_env, full_name, repos_dir,
                 cmd, exc, procs>>

\* @webhook.hook() def on_push(data): the wrapper calls the hook with the
\* decoded payload of a push delivery.
OnPushCall(r, d) ==
  /\ serving /\ pc[r] = "idle"
  /\ kind' = [kind EXCEPT ![r] = "POST"]
  /\ data' = [data EXCEPT ![r] = d]
  /\ pc' = [pc EXCEPT ![r] = "l27"]
  /\ UNCHANGED <<startEnv, envs, serving, script_env, full_name, repos_dir, cmd,
                 ret, exc, status, procs>>

\* ------------------------------------------------------------------ on_push
\* os.environ.copy() is a new dict object, private to the call.
EnvironAlias(r) == 0
EnvironCopy(r) == r

\* script_env = os.environ.copy()
Line27(r) ==
  /\ pc[r] = "l27"
  /\ LET o == EnvironCopy(r) IN
       /\ script_env' = [script_env EXCEPT ![r] = o]
       /\ envs' = [x \in DOMAIN envs \cup {o} |-> IF x = o THEN envs[0] ELSE envs[x]]
  /\ pc' = [pc EXCEPT ![r] = "l28"]
  /\ UNCHANGED <<startEnv, serving, kind, data, full_name, repos_dir, cmd, ret,
                 exc, status, procs>>

\* full_name = data['repository']['full_name']
Line28(r) ==
  /\ pc[r] = "l28"
  /\ IF "repository" \in DOMAIN data[r] /\ "full_name" \in DOMAIN data[r]["repository"]
       THEN /\ full_name' = [full_name EXCEPT ![r] = data[r]["repository"]["full_name"]]
            /\ pc' = [pc EXCEPT ![r] = "l29"]
            /\ UNCHANGED <<serving, ret, exc, status>>
       ELSE /\ Raise(r, "KeyError")
            /\ UNCHANGED full_name
  /\ UNCHANGED <<startEnv, envs, kind, data, script_env, repos_dir, cmd, procs>>

\* repos_dir = os.environ.get('REPOS_DIR', os.path.join(os.environ.get('PWD'), 'git'))
\* The default is an argument of get(): it is evaluated before get() is
\* called, and os.path.join(None, 'git') is a TypeError.
Line29(r) ==
  /\ pc[r] = "l29"
  /\ IF EnvGet(envs[0], "PWD") # Unset
       THEN /\ repos_dir' = [repos_dir EXCEPT ![r] =
                               EnvGetOr(envs[0], "REPOS_DIR",
                                        PathJoin(EnvGet(envs[0], "PWD"), GIT))]
            /\ pc' = [pc EXCEPT ![r] = "l31"]
            /\ UNCHANGED <<serving, ret, exc, status>>
       ELSE /\ Raise(r, "TypeError")
            /\ UNCHANGED repos_dir
  /\ UNCHANGED <<startEnv, envs, kind, data, script_env, full_name, cmd, procs>>

\* script_env['REPO_DIR'] = os.path.join(repos_dir, full_name)
Line31(r) ==
  /\ pc[r] = "l31"
  /\ envs' = [envs EXCEPT ![script_env[r]] =
                 EnvSet(envs[script_env[r]], "REPO_DIR", PathJoin(repos_dir[r], full_name[r]))]
  /\ pc' = [pc EXCEPT ![r] = "l32"]
  /\ UNCHANGED <<startEnv, serving, kind, data, script_env, full_name, repos_dir,
                 cmd, ret, exc, status, procs>>

\* cmd = ['notify.sh', data['ref'], data['before'], data['after'], full_name]
Cmd(d, name) == <<NOTIFY, d["ref"], d["before"], d["after"], name>>

Line32(r) ==
  /\ pc[r] = "l32"
  /\ IF {"ref", "before", "after"} \subseteq DOMAIN data[r]
       THEN /\ cmd' = [cmd EXCEPT ![r] = Cmd(data[r], full_name[r])]
            /\ pc' = [pc EXCEPT ![r] = "l33"]
            /\ UNCHANGED <<serving, ret, exc, status>>
       ELSE /\ Raise(r, "KeyError")
            /\ UNCHANGED cmd
  /\ UNCHANGED <<startEnv, envs, kind, data, script_env, full_name, repos_dir, procs>>

\* subprocess.Popen(cmd, env=script_env, stdout=None, stderr=None): the child
\* is started with the mapping as it is at the call, or the call raises an
\* OSError (FileNotFoundError, PermissionError) and no child exists.
SpawnTwice(ps, r, argv, env) ==
  Append(Append(ps, [owner |-> r, argv |-> argv, env |-> env, rc |-> -1]),
         [owner |-> r, argv |-> argv, env |-> env, rc |-> -1])
Spawn(ps, r, argv, env) ==
  Append(ps, [owner |-> r, argv |-> argv, env |-> env, rc |-> -1])

Line33(r) ==
  /\ pc[r] = "l33"
  /\ \E started \in BOOLEAN :
       IF started
         THEN /\ procs' = Spawn(procs, r, cmd[r], envs[script_env[r]])
              /\ pc' = [pc EXCEPT ![r] = "l34"]
              /\ UNCHANGED <<serving, ret, exc, status>>
         ELSE /\ Raise(r, "OSError")
              /\ UNCHANGED procs
  /\ UNCHANGED <<startEnv, envs, kind, data, script_env, full_name, repos_dir, cmd>>

\* return "Processed push to {}.".format(full_name)
\* Popen does not wait for the child and on_push never calls wait().
Line34Waiting(r) ==
  /\ pc[r] = "l34"
  /\ \A i \in DOMAIN procs : procs[i].owner = r => procs[i].rc # -1
  /\ ret' = [ret EXCEPT ![r] = Processed(full_name[r])]
  /\ pc' = [pc EXCEPT ![r] = "done"]
  /\ \E st \in HookOkStatus : status' = [status EXCEPT ![r] = st]
  /\ UNCHANGED <<startEnv, envs, serving, kind, data, script_env, full_name,
                 repos_dir, cmd, exc, procs>>
Line34(r) ==
  /\ pc[r] = "l34"
  /\ ret' = [ret EXCEPT ![r] = Processed(full_name[r])]
  /\ pc' = [pc EXCEPT ![r] = "done"]
  /\ \E st \in HookOkStatus : status' = [status EXCEPT ![r] = st]
  /\ UNCHANGED <<startEnv, envs, serving, kind, data, script_env, full_name,
                 repos_dir, cmd, exc, procs>>

OnPush(r) ==
  \/ Line27(r)
  \/ Line28(r)
  \/ Line29(r)
  \/ Line31(r)
  \/ Line32(r)
  \/ Line33(r)
  \/ Line34(r)

\* ------------------------------------------------------------- the children
\* notify.sh ends, with any exit status, whenever it does; it may never end.
ProcExit(i, code) ==
  /\ procs[i].rc = -1
  /\ procs' = [procs EXCEPT ![i].rc = code]
  /\ UNCHANGED <<startEnv, envs, serving, kind, data, pc, script_env, full_name,
                 repos_dir, cmd, ret, exc, status>>

Next ==
  \/ \E r \in Reqs : HelloWorld(r)
  \/ \E r \in Reqs : \E d \in Payloads : OnPushCall(r, d)
  \/ \E r \in Reqs : OnPush(r)
  \/ \E i \in DOMAIN procs : \E code \in {0, 1} : ProcExit(i, code)

Spec == Init /\ [][Next]_vars

\* Every thread that runs on_push keeps running it; nothing makes a child end.
\* The start environments are those over the keys on_push reads.
LiveEnvs == { e \in StartEnvs : DOMAIN e \subseteq {"PATH", "PWD", "REPOS_DIR"} }

LiveInit == Init /\ startEnv \in LiveEnvs

LiveSpec == LiveInit /\ [][Next]_vars /\ \A r \in Reqs : WF_vars(OnPush(r))

\* ================================================================== claims
\* The children started by request r.
Owned(r) == { i \in DOMAIN procs : procs[i].owner = r }

\* The payload carries ref, before, after and repository.full_name.
HasAll(d) ==
  /\ {"ref", "before", "after", "repository"} \subseteq DOMAIN d
  /\ "full_name" \in DOMAIN d["repository"]

FullNameOf(r) == data[r]["repository"]["full_name"]

\* A push whose handling has ended.
PushDone(r) == kind[r] = "POST" /\ pc[r] = "done"

\* C2: every handled push that carries ref, before, after and
\* repository.full_name, and whose notify.sh could be started, has exactly one
\* child, started with [ref, before, after, full_name] in that order, and the
\* handler has returned "Processed push to <full_name>.".
C2_ExactlyOneProcess ==
  \A r \in Reqs :
    (PushDone(r) /\ HasAll(data[r]) /\ exc[r] # "OSError") =>
      /\ Cardinality(Owned(r)) = 1
      /\ \A i \in Owned(r) :
           procs[i].argv = <<NOTIFY, data[r]["ref"], data[r]["before"], data[r]["after"],
                             FullNameOf(r)>>
      /\ ret[r] = <<"Processed push to ">> \o FullNameOf(r) \o <<".">>

\* C3: every handled push whose payload lacks one of ref, before, after,
\* repository or repository.full_name was answered with status 400 and has
\* no child.
C3_MissingFieldIs400 ==
  \A r \in Reqs :
    (PushDone(r) /\ ~HasAll(data[r])) => (status[r] = 400 /\ Owned(r) = {})

\* C4 (under LiveSpec): in every behaviour in which the handler threads keep
\* running, whatever the children do and also when they never end, there
\* comes a point from which every push on_push was called for has its
\* response, and the response of every push whose child was started is the
\* success message, whether the child is running, has ended with 0 or has
\* ended with 1.
C4_ResponseNotBlocked ==
  <>[](\A r \in Reqs :
         kind[r] = "POST" =>
           /\ pc[r] = "done"
           /\ Owned(r) # {} =>
                /\ exc[r] = ""
                /\ ret[r] = <<"Processed push to ">> \o FullNameOf(r) \o <<".">>)

\* Two pushes have been answered with the success message, the child of one
\* still running and the child of the other ended with status 1.
C4_Witness ==
  \E i, j \in DOMAIN procs :
    /\ procs[i].rc = -1 /\ procs[j].rc = 1
    /\ pc[procs[i].owner] = "done" /\ pc[procs[j].owner] = "done"
    /\ ret[procs[i].owner] # Unset /\ ret[procs[j].owner] # Unset

C7_EnvFrame ==
  /\ envs[0] = startEnv
  /\ \A i \in DOMAIN procs :
       /\ DOMAIN procs[i].env = DOMAIN startEnv \cup {"REPO_DIR"}
       /\ \A k \in DOMAIN startEnv \ {"REPO_DIR"} : procs[i].env[k] = startEnv[k]
  /\ \A r \in Reqs :
       pc[r] \in {"l28", "l29", "l31"} => envs[script_env[r]] = startEnv

\* A child was started with a REPO_DIR that replaced the server's own, and a
\* later request holds its snapshot.
C7_Witness ==
  \E i \in DOMAIN procs : \E r \in Reqs :
    /\ procs[i].owner # r
    /\ pc[r] = "l28"
    /\ "REPO_DIR" \in DOMAIN startEnv
    /\ "GITHUB_SECRET" \in DOMAIN startEnv
    /\ procs[i].env["REPO_DIR"] # startEnv["REPO_DIR"]

\* C8: for every handled push with all fields whose notify.sh could be
\* started, with REPOS_DIR or PWD set, a child exists whose REPO_DIR is
\* <reposRoot>/<full_name>, reposRoot being REPOS_DIR when it is set and
\* <PWD>/git otherwise.
C8_RepoDirUnderRoot ==
  \A r \in Reqs :
    (/\ PushDone(r) /\ HasAll(data[r]) /\ exc[r] # "OSError"
     /\ ("REPOS_DIR" \in DOMAIN startEnv \/ "PWD" \in DOMAIN startEnv)) =>
      \E i \in Owned(r) :
        procs[i].env["REPO_DIR"] =
          (IF "REPOS_DIR" \in DOMAIN startEnv
             THEN startEnv["REPOS_DIR"]
             ELSE startEnv["PWD"] \o <<"/", "g", "i", "t">>)
          \o <<"/">> \o FullNameOf(r)

\* C9: there are never more children than pushes for which on_push has
\* read all its fields, no request has more than one child, and every GET /
\* was answered 200 "Hello, world!" and has no child.
C9_AtMostOneProcess ==
  /\ Len(procs) <= Cardinality({ r \in Reqs : kind[r] = "POST" /\ cmd[r] # <<>> })
  /\ \A r \in Reqs : Cardinality(Owned(r)) <= 1
  /\ \A r \in Reqs :
       kind[r] = "GET" => (status[r] = 200 /\ ret[r] = <<"Hello, world!">> /\ Owned(r) = {})

\* A GET / has been answered and a push has its child.
C9_Witness ==
  \E r, q \in Reqs : kind[r] = "GET" /\ pc[r] = "done" /\ Owned(q) # {}

\* C10: every child was started with the arguments of the payload of the
\* request that started it, and with the REPO_DIR joined from the server's
\* repos root and that payload's full_name, whatever other requests were in
\* flight.
C10_SelfContained ==
  \A i \in DOMAIN procs :
    LET r == procs[i].owner
        root == IF "REPOS_DIR" \in DOMAIN startEnv
                  THEN startEnv["REPOS_DIR"]
                  ELSE PathJoin(startEnv["PWD"], GIT)
    IN /\ procs[i].argv = <<NOTIFY, data[r]["ref"], data[r]["before"], data[r]["after"],
                             FullNameOf(r)>>
       /\ procs[i].env["REPO_DIR"] = PathJoin(root, FullNameOf(r))

\* The children of two pushes to the same repository run at the same time
\* against the same REPO_DIR.
C10_Witness ==
  \E i, j \in DOMAIN procs :
    /\ procs[i].owner # procs[j].owner
    /\ procs[i].rc = -1 /\ procs[j].rc = -1
    /\ procs[i].env["REPO_DIR"] = procs[j].env["REPO_DIR"]

====
